---- MODULE Spec2Model ----
(***************************************************************************)
(* Model of the two reactive primitives of svelte5-utils:                  *)
(*   - loading.svelte.ts : the tree of loading states (useLoading)         *)
(*   - lockable.svelte.ts: the lockable store (lockable / lockable.from)   *)
(* Each handler of the source is one action.  The host runtime (Svelte's   *)
(* onDestroy, the browser's timers and promise jobs) is modelled by the    *)
(* actions that run the callbacks the source hands to it.                  *)
(***************************************************************************)
EXTENDS Integers, Sequences, FiniteSets, TLC

\* ------------------------------------------------------------------ bounds
\* Number of loading states created in one behaviour.
MaxNodes == 3

\* Number of distinct listener callbacks handed to onupdateprevented.
MaxListeners == 2

NodeIds == 1..MaxNodes
ListenerIds == 1..MaxListeners
\* The values written to the lockable store.
Vals == {"A", "B"}
\* The delays handed to promised(), in ms: the default 0 and a longer one.
Delays == {0, 50}

VARIABLES
    \* ---- loading.svelte.ts
    count,       \* how many loading states have been created (ids 1..count)
    kind,        \* which factory made node n
    parent,      \* the store whose `values` set node n was added to (0: a root)
    value,       \* `let value = $state(..)` of useLoading/scoped/promised
    from,        \* what the `from` callback of a derived state returns now
    values,      \* `const values = new SvelteSet()` of each store made by create()
    destroyed,   \* the onDestroy callback registered for node n has run
    timeout,     \* the setTimeout of a promised state: "waiting" while the delay
                 \* runs, "due" once it has run out, then "fired" or "cleared"
    promise,     \* the promise tracked by a promised state
    jobs,        \* promise jobs queued by the host: `finally` callbacks to run
    ret,         \* how the last call on a loading state ended: what it returned
                 \* or threw, and on which state it was made
    \* ---- lockable.svelte.ts
    accessorKind, \* what was handed to from(): "none" before the store is made
    target,      \* the value of the location that the accessor wraps
    stray,       \* the property that a `set` called on the store object wrote there
    lock,        \* what the `lock` callback returns now
    listeners,   \* `const listeners = new Set()`, in insertion order
    issued,      \* the listeners for which onupdateprevented has returned a cleanup
    attached,    \* the listeners whose cleanup waits for the abort of the signal
    aborted,     \* the AbortSignal handed to onupdateprevented has aborted
    last         \* what the last call on the store did (calls made, events delivered)

loadingVars == <<count, kind, parent, value, from, values, destroyed,
                 timeout, promise, jobs, ret>>

storeVars == <<accessorKind, target, stray, lock, listeners, issued, attached,
               aborted, last>>

vars == <<loadingVars, storeVars>>

\* ------------------------------------------------------- loading.svelte.ts

Aggregated == {"useLoading", "useLoading.derived", "scoped", "derived"}
Writable == {"useLoading", "scoped"}
Created == 1..count

\* The `get` argument handed to create(): `() => value` or `from`.
get(n) == IF kind[n] \in {"derived", "useLoading.derived"} THEN from[n] ELSE value[n]

Least(S) == CHOOSE x \in S : \A y \in S : x <= y

RECURSIVE nodeValue(_)
RECURSIVE currentLoop(_, _)
\* A loop that reads each child's own flag instead of the child's `value`.
currentLoopShallow(acc, S) == acc \/ \E c \in S : get(c)

\* `for (const v of values) value = value || v.value;` in insertion order
\* (ids are handed out in creation order and a child is added once).
currentLoop(acc, S) ==
    IF S = {} THEN acc
    ELSE LET v == Least(S) IN currentLoop(acc \/ nodeValue(v), S \ {v})

\* function current()
current(n) == currentLoop(get(n), values[n])

\* `get value()` of a store: current() for create(), the bare flag for promised().
nodeValue(n) == IF kind[n] = "promised" THEN value[n] ELSE current(n)

\* Nothing to report: the last step was not a write or an or() on a state.
NoRet == [op |-> "-", n |-> 0, out |-> "-"]

LoadingInit ==
    /\ count = 0
    /\ kind = [n \in NodeIds |-> "none"]
    /\ parent = [n \in NodeIds |-> 0]
    /\ value = [n \in NodeIds |-> FALSE]
    /\ from = [n \in NodeIds |-> FALSE]
    /\ values = [n \in NodeIds |-> {}]
    /\ destroyed = [n \in NodeIds |-> FALSE]
    /\ timeout = [n \in NodeIds |-> "none"]
    /\ promise = [n \in NodeIds |-> "none"]
    /\ jobs = <<>>
    /\ ret = NoRet

\* useLoading(initial)
useLoading(initial) ==
    /\ count < MaxNodes
    /\ count' = count + 1
    /\ kind' = [kind EXCEPT ![count + 1] = "useLoading"]
    /\ value' = [value EXCEPT ![count + 1] = initial]
    /\ UNCHANGED <<parent, from, values, destroyed, timeout, promise, jobs>>
    /\ ret' = NoRet
    /\ UNCHANGED storeVars

\* useLoading.derived(from); f is what `from` returns at first
useLoading_derived(f) ==
    /\ count < MaxNodes
    /\ count' = count + 1
    /\ kind' = [kind EXCEPT ![count + 1] = "useLoading.derived"]
    /\ from' = [from EXCEPT ![count + 1] = f]
    /\ UNCHANGED <<parent, value, values, destroyed, timeout, promise, jobs>>
    /\ ret' = NoRet
    /\ UNCHANGED storeVars

\* An add that puts the new store into the set one level up as well.
valuesAddUp(p, n) ==
    [x \in NodeIds |-> IF x = p \/ x = parent[p] THEN values[x] \cup {n} ELSE values[x]]

\* `values.add(store)` of scoped/derived/promised
valuesAdd(p, n) == [values EXCEPT ![p] = @ \cup {n}]

\* p.scoped(initial)
scoped(p, initial) ==
    /\ count < MaxNodes
    /\ p \in Created /\ kind[p] \in Aggregated
    /\ count' = count + 1
    /\ kind' = [kind EXCEPT ![count + 1] = "scoped"]
    /\ parent' = [parent EXCEPT ![count + 1] = p]
    /\ value' = [value EXCEPT ![count + 1] = initial]
    /\ values' = valuesAdd(p, count + 1)
    /\ UNCHANGED <<from, destroyed, timeout, promise, jobs>>
    /\ ret' = NoRet
    /\ UNCHANGED storeVars

\* p.derived(from)
derived(p, f) ==
    /\ count < MaxNodes
    /\ p \in Created /\ kind[p] \in Aggregated
    /\ count' = count + 1
    /\ kind' = [kind EXCEPT ![count + 1] = "derived"]
    /\ parent' = [parent EXCEPT ![count + 1] = p]
    /\ from' = [from EXCEPT ![count + 1] = f]
    /\ values' = valuesAdd(p, count + 1)
    /\ UNCHANGED <<value, destroyed, timeout, promise, jobs>>
    /\ ret' = NoRet
    /\ UNCHANGED storeVars

\* p.promised(promise, delay); st is the state of the promise handed in.
\* `promise.finally(cb)` on a settled promise queues cb as a promise job at once.
promised(p, st, delay) ==
    /\ count < MaxNodes
    /\ p \in Created /\ kind[p] \in Aggregated
    /\ count' = count + 1
    /\ kind' = [kind EXCEPT ![count + 1] = "promised"]
    /\ parent' = [parent EXCEPT ![count + 1] = p]
    /\ value' = [value EXCEPT ![count + 1] = FALSE]
    /\ timeout' = [timeout EXCEPT ![count + 1] = IF delay = 0 THEN "due" ELSE "waiting"]
    /\ promise' = [promise EXCEPT ![count + 1] = st]
    /\ jobs' = IF st = "pending" THEN jobs ELSE Append(jobs, count + 1)
    /\ values' = valuesAdd(p, count + 1)
    /\ UNCHANGED <<from, destroyed>>
    /\ ret' = NoRet
    /\ UNCHANGED storeVars

\* A write that also sets the flag of the store the state was created on.
setValueUp(n, val) ==
    /\ n \in Created /\ kind[n] \in Writable
    /\ value' = [value EXCEPT ![n] = val, ![IF parent[n] = 0 THEN n ELSE parent[n]] = val]
    /\ UNCHANGED <<count, kind, parent, from, values, destroyed, timeout,
                   promise, jobs>>
    /\ ret' = NoRet
    /\ UNCHANGED storeVars

\* `n.value = val` on a store whose `set` is `(val) => (value = val)`
setValue(n, val) ==
    /\ n \in Created /\ kind[n] \in Writable
    /\ value' = [value EXCEPT ![n] = val]
    /\ UNCHANGED <<count, kind, parent, from, values, destroyed, timeout,
                   promise, jobs>>
    /\ ret' = NoRet
    /\ UNCHANGED storeVars

\* A default `set` that drops the value and returns.
readonly_ignored == "returned"

\* function readonly_error() { throw new Error('Readonly property'); }
readonly_error == "Error: Readonly property"

\* An assignment to a property that has a getter and no setter, made in module
\* code (always strict), throws a TypeError.
getter_only == "TypeError: Cannot set property value which has only a getter"

\* `n.value = val` in a caller that tells how the assignment ended.  A store
\* made by create() has `set value(val) { set(val); }`, where set is
\* `(val) => (value = val)` for useLoading() and scoped() and readonly_error
\* for the derived ones; the store made by promised() has `get value()` only.
assignValue(n, val) ==
    /\ n \in Created
    /\ CASE kind[n] \in Writable ->
              /\ value' = [value EXCEPT ![n] = val]
              /\ ret' = [op |-> "write", n |-> n, out |-> "returned"]
         [] kind[n] = "promised" ->
              /\ UNCHANGED value
              /\ ret' = [op |-> "write", n |-> n, out |-> getter_only]
         [] OTHER ->
              /\ UNCHANGED value
              /\ ret' = [op |-> "write", n |-> n, out |-> readonly_error]
    /\ UNCHANGED <<count, kind, parent, from, values, destroyed, timeout,
                   promise, jobs>>
    /\ UNCHANGED storeVars

\* Values handed to or(): JavaScript values, written as their literals.
Others == {"false", "0", "true", "'x'"}
Falsy == {"undefined", "null", "false", "0", "-0", "0n", "NaN", "''"}
\* Boolean(other)
Boolean(x) == x \notin Falsy
String(b) == IF b THEN "true" ELSE "false"

\* An or() that looks at the state's own source only.
orOwn(n, x) ==
    /\ n \in Created
    /\ ret' = [op |-> "or", n |-> n, out |-> String(get(n) \/ Boolean(x))]
    /\ UNCHANGED <<count, kind, parent, value, from, values, destroyed, timeout,
                   promise, jobs>>
    /\ UNCHANGED storeVars

\* n.or(other): `current() || Boolean(other)` on a store made by create(),
\* `value || Boolean(other)` on the store made by promised().
or(n, x) ==
    /\ n \in Created
    /\ ret' = [op |-> "or", n |-> n,
               out |-> String(IF kind[n] = "promised" THEN value[n] \/ Boolean(x)
                                ELSE current(n) \/ Boolean(x))]
    /\ UNCHANGED <<count, kind, parent, value, from, values, destroyed, timeout,
                   promise, jobs>>
    /\ UNCHANGED storeVars

\* The state read by the `from` callback of a derived store changes.
fromChanges(n, f) ==
    /\ n \in Created /\ kind[n] \in {"derived", "useLoading.derived"}
    /\ from[n] # f
    /\ from' = [from EXCEPT ![n] = f]
    /\ UNCHANGED <<count, kind, parent, value, values, destroyed, timeout,
                   promise, jobs>>
    /\ ret' = NoRet
    /\ UNCHANGED storeVars

\* A teardown hook that deletes from the child's own set instead of the parent's.
valuesDeleteOwn(p, n) == [values EXCEPT ![n] = @ \ {n}]

\* `values.delete.bind(values, store)`
valuesDelete(p, n) == [values EXCEPT ![p] = @ \ {n}]

\* A teardown that gives up the tracked promise as well.
onDestroyAbandons(n) ==
    /\ n \in Created /\ parent[n] # 0
    /\ values' = valuesDelete(parent[n], n)
    /\ destroyed' = [destroyed EXCEPT ![n] = TRUE]
    /\ promise' = [promise EXCEPT ![n] = IF @ = "pending" THEN "abandoned" ELSE @]
    /\ UNCHANGED <<count, kind, parent, value, from, timeout, jobs>>
    /\ ret' = NoRet
    /\ UNCHANGED storeVars

\* The callback handed to onDestroy runs (the host may be made to run it again).
onDestroy(n) ==
    /\ n \in Created /\ parent[n] # 0
    /\ values' = valuesDelete(parent[n], n)
    /\ destroyed' = [destroyed EXCEPT ![n] = TRUE]
    /\ UNCHANGED <<count, kind, parent, value, from, timeout, promise, jobs>>
    /\ ret' = NoRet
    /\ UNCHANGED storeVars

\* A timer callback that runs ahead of the promise jobs already queued.
timeoutCallbackEarly(n) ==
    /\ n \in Created /\ timeout[n] = "due"
    /\ value' = [value EXCEPT ![n] = TRUE]
    /\ timeout' = [timeout EXCEPT ![n] = "fired"]
    /\ UNCHANGED <<count, kind, parent, from, values, destroyed, promise, jobs>>
    /\ ret' = NoRet
    /\ UNCHANGED storeVars

\* The callback of setTimeout runs: a task, so only once no promise job is queued.
timeoutCallback(n) ==
    /\ n \in Created /\ timeout[n] = "due"
    /\ jobs = <<>>
    /\ value' = [value EXCEPT ![n] = TRUE]
    /\ timeout' = [timeout EXCEPT ![n] = "fired"]
    /\ UNCHANGED <<count, kind, parent, from, values, destroyed, promise, jobs>>
    /\ ret' = NoRet
    /\ UNCHANGED storeVars

\* The tracked promise fulfils or rejects; its `finally` callback is queued.
settle(n, outcome) ==
    /\ n \in Created /\ promise[n] = "pending"
    /\ promise' = [promise EXCEPT ![n] = outcome]
    /\ jobs' = Append(jobs, n)
    /\ UNCHANGED <<count, kind, parent, value, from, values, destroyed, timeout>>
    /\ ret' = NoRet
    /\ UNCHANGED storeVars

\* A settlement that leaves the timer alone.
cleanupNothing(n) == timeout

\* `cleanup = clearTimeout.bind(window, timeout)`: no effect on a fired timer
cleanup(n) ==
    IF timeout[n] \in {"waiting", "due"} THEN [timeout EXCEPT ![n] = "cleared"] ELSE timeout

\* A callback attached with `then`: it runs on fulfilment only.
thenCallback ==
    /\ jobs # <<>>
    /\ LET n == Head(jobs) IN
        IF promise[n] = "fulfilled"
        THEN /\ value' = [value EXCEPT ![n] = FALSE]
             /\ timeout' = cleanup(n)
        ELSE UNCHANGED <<value, timeout>>
    /\ jobs' = Tail(jobs)
    /\ UNCHANGED <<count, kind, parent, from, values, destroyed, promise>>
    /\ ret' = NoRet
    /\ UNCHANGED storeVars

\* `promise.finally(() => { value = false; cleanup(); })`
finallyCallback ==
    /\ jobs # <<>>
    /\ LET n == Head(jobs) IN
        /\ value' = [value EXCEPT ![n] = FALSE]
        /\ timeout' = cleanup(n)
    /\ jobs' = Tail(jobs)
    /\ UNCHANGED <<count, kind, parent, from, values, destroyed, promise>>
    /\ ret' = NoRet
    /\ UNCHANGED storeVars

\* Time passes: the delay of the timer of node n runs out.
delayElapses(n) ==
    /\ n \in Created /\ timeout[n] = "waiting"
    /\ timeout' = [timeout EXCEPT ![n] = "due"]
    /\ UNCHANGED <<count, kind, parent, value, from, values, destroyed, promise, jobs>>
    /\ ret' = NoRet
    /\ UNCHANGED storeVars

\* ------------------------------------------------------ lockable.svelte.ts

Range(q) == {q[i] : i \in DOMAIN q}

\* A call that did nothing to report.  `l` is the listener that a call was
\* about: the one registered again, the one whose stale cleanup was called,
\* the one that re-entered the store during a write.
NoCall == [op |-> "other", v |-> "-", locked |-> FALSE, before |-> "-",
           registered |-> <<>>, deliveries |-> <<>>, sets |-> <<>>,
           reentered |-> FALSE, l |-> 0]

StoreInit ==
    /\ accessorKind = "none"
    /\ target = "-"
    /\ stray = "-"
    /\ lock = FALSE
    /\ listeners = <<>>
    /\ issued = {}
    /\ attached = {}
    /\ aborted = FALSE
    /\ last = NoCall

\* lockable(lock, value): from() with the closures `() => val`, `(v) => { val = v }`
lockable(v) ==
    /\ accessorKind = "none"
    /\ accessorKind' = "closures"
    /\ target' = v
    /\ last' = NoCall
    /\ UNCHANGED <<stray, lock, listeners, issued, attached, aborted>>
    /\ UNCHANGED loadingVars

\* lockable.from(lock, accessor) with accessor one of
\*   "value":    { value } (wrapped into closures over the object by from)
\*   "closures": { get, set } that are closures over the location
\*   "methods":  { get() { return this.v }, set(x) { this.v = x } }
lockable_from(k, v) ==
    /\ accessorKind = "none"
    /\ accessorKind' = k
    /\ target' = v
    /\ last' = NoCall
    /\ UNCHANGED <<stray, lock, listeners, issued, attached, aborted>>
    /\ UNCHANGED loadingVars

\* A `get` that reads the property of the store object, not the wrapped location.
accessorGetStray(m) == m.stray

\* accessor.get()
accessorGet(m) == m.target

\* accessor.set called on `this`: closures ignore `this`; a method writes the
\* property of the object it is called on.
accessorSet(m, this, x) ==
    IF accessorKind = "methods" /\ this = "store"
    THEN [m EXCEPT !.stray = x]
    ELSE [m EXCEPT !.target = x]

\* `get force() { return accessor.set; }` then `store.force(x)`: accessor.set
\* is called on the store.
forceCall(m, x) == accessorSet(m, "store", x)

\* `get value()`
storeValue == accessorGet([target |-> target, stray |-> stray])

\* A lock() whose answer is the one remembered from the last call on the store.
lockCallStale == last.locked

\* `lock()`
lockCall == lock

\* `get locked()`
storeLocked == lockCall

\* listeners.add(l): a Set keeps one entry per listener, at its first position
setAdd(list, l) == IF l \in Range(list) THEN list ELSE Append(list, l)

\* A delete that removes every listener registered after l as well.
setDeleteFrom(list, l) ==
    [i \in DOMAIN list |->
        IF \E j \in DOMAIN list : j <= i /\ list[j] = l THEN 0 ELSE list[i]]

\* listeners.delete(l): the entry is emptied (0), so that a running iteration
\* skips it; the empty entries are dropped when no iteration runs.
setDelete(list, l) == [i \in DOMAIN list |-> IF list[i] = l THEN 0 ELSE list[i]]

compact(list) == SelectSeq(list, LAMBDA x : x # 0)

\* What a listener does when it is called for the first time in a dispatch:
\* nothing, store.force(x), the cleanup of listener m, onupdateprevented(m),
\* or the cleanup of m followed by onupdateprevented(m).
Nothing == [do |-> "none", x |-> "-", m |-> 0]
Behaviours ==
    {Nothing}
    \cup {[do |-> "force", x |-> x, m |-> 0] : x \in Vals}
    \cup {[do |-> "unregister", x |-> "-", m |-> m] : m \in ListenerIds}
    \cup {[do |-> "register", x |-> "-", m |-> m] : m \in ListenerIds}
    \cup {[do |-> "reregister", x |-> "-", m |-> m] : m \in ListenerIds}

\* The body of listener l, called with the dispatch in state d.
listenerBody(d, l, b) ==
    CASE b.do = "force" ->
           LET m == forceCall([target |-> d.target, stray |-> d.stray], b.x) IN
           [d EXCEPT !.target = m.target, !.stray = m.stray,
                     !.sets = Append(@, [by |-> l, v |-> b.x])]
      [] b.do = "unregister" -> [d EXCEPT !.list = setDelete(@, b.m)]
      [] b.do = "register" ->
           [d EXCEPT !.list = setAdd(@, b.m), !.issued = @ \cup {b.m}]
      [] b.do = "reregister" ->
           [d EXCEPT !.list = setAdd(setDelete(@, b.m), b.m), !.issued = @ \cup {b.m}]
      [] OTHER -> d

RECURSIVE dispatch(_, _, _)
\* `for (const listener of listeners) { const old = untrack(() => accessor.get());
\*   listener(new CustomEvent('update-prevented', {detail: {value: old, newValue: v}})) }`
\* The iteration is live: it visits entries added while it runs and skips
\* entries deleted before their turn.
dispatch(d, v, beh) ==
    IF d.i > Len(d.list) THEN d
    ELSE IF d.list[d.i] = 0 THEN dispatch([d EXCEPT !.i = @ + 1], v, beh)
    ELSE LET l == d.list[d.i]
             old == accessorGet([target |-> d.target, stray |-> d.stray])
             ev == [event |-> Len(d.deliveries) + 1, listener |-> l,
                    value |-> old, newValue |-> v]
             called == [d EXCEPT !.deliveries = Append(@, ev), !.i = @ + 1,
                                 !.acted = @ \cup {l}]
         IN dispatch(IF l \in d.acted THEN called
                     ELSE listenerBody(called, l, beh[l]), v, beh)

\* Listener l does b when it is first called; the other listeners do nothing.
\* A cleanup can only be called once onupdateprevented has returned it.  Calls
\* that find nothing to do are left out: the cleanup of a listener that is not
\* registered, the registration of one that is.
Only(l, b) == [x \in ListenerIds |-> IF x = l THEN b ELSE Nothing]
Callable(b) ==
    /\ b.do \in {"unregister", "reregister"} => b.m \in issued /\ b.m \in Range(listeners)
    /\ b.do = "register" => b.m \notin Range(listeners)
\* Only a listener that a locked write calls gets to do something.
Called(a, b) ==
    IF lock /\ a \in Range(listeners) THEN TRUE ELSE b = Nothing /\ a = 1

\* The state that a call on the store starts from.
callState ==
    [list |-> listeners, i |-> 1, target |-> target, stray |-> stray,
     deliveries |-> <<>>, sets |-> <<>>, acted |-> {}, issued |-> issued]

\* A locked branch that falls through to accessor.set (a missing `else`).
lockedWriteFallsThrough(v, beh) ==
    LET d == IF Len(listeners) = 0 THEN callState ELSE dispatch(callState, v, beh)
        m == accessorSet([target |-> d.target, stray |-> d.stray], "accessor", v)
    IN [d EXCEPT !.target = m.target, !.stray = m.stray,
                 !.sets = Append(@, [by |-> 0, v |-> v])]

\* `if (locked) { if (!listeners.size) return; for (...) {...} }`
lockedWrite(v, beh) ==
    IF Len(listeners) = 0 THEN callState ELSE dispatch(callState, v, beh)

\* `else { accessor.set(v); }`
unlockedWrite(v) ==
    LET m == accessorSet([target |-> target, stray |-> stray], "accessor", v)
    IN [callState EXCEPT !.target = m.target, !.stray = m.stray,
                         !.sets = <<[by |-> 0, v |-> v]>>]

\* `store.value = v`; listener a does b when it is called.
setStoreValue(v, a, b) ==
    /\ accessorKind # "none"
    /\ Callable(b) /\ Called(a, b)
    /\ \E d \in {IF lockCall THEN lockedWrite(v, Only(a, b)) ELSE unlockedWrite(v)} :
        /\ target' = d.target
        /\ stray' = d.stray
        /\ listeners' = compact(d.list)
        /\ issued' = d.issued
        /\ last' = [op |-> "write", v |-> v, locked |-> lockCall, before |-> target,
                    registered |-> listeners, deliveries |-> d.deliveries,
                    sets |-> d.sets, reentered |-> a \in d.acted /\ b # Nothing,
                    l |-> IF a \in d.acted /\ b # Nothing THEN a ELSE 0]
    /\ UNCHANGED <<accessorKind, lock, attached, aborted>>
    /\ UNCHANGED loadingVars

\* `store.force(v)`
force(v) ==
    /\ accessorKind # "none"
    /\ LET m == forceCall([target |-> target, stray |-> stray], v)
       IN /\ target' = m.target
          /\ stray' = m.stray
    /\ last' = [NoCall EXCEPT !.op = "force", !.v = v, !.locked = lock,
                            !.before = target, !.registered = listeners]
    /\ UNCHANGED <<accessorKind, lock, listeners, issued, attached, aborted>>
    /\ UNCHANGED loadingVars

\* onupdateprevented(listener, signal); s is "none" or "signal".  A signal that
\* has aborted never fires `abort` again.  A call that registers a listener
\* whose earlier registration has ended is reported as such.
onupdateprevented(l, s) ==
    /\ accessorKind # "none"
    /\ listeners' = setAdd(listeners, l)
    /\ issued' = issued \cup {l}
    /\ attached' = IF s = "signal" /\ ~aborted THEN attached \cup {l} ELSE attached
    /\ last' = IF l \in issued /\ l \notin Range(listeners)
               THEN [NoCall EXCEPT !.op = "register again", !.l = l]
               ELSE NoCall
    /\ UNCHANGED <<accessorKind, target, stray, lock, aborted>>
    /\ UNCHANGED loadingVars

\* A cleanup function returned by onupdateprevented(l, ..) is called: "current",
\* any of those returned for l, or "stale", one returned for a registration of
\* l that ended before l was registered again.  The registry keeps no record of
\* the call that registered a listener; the caller that has just registered l
\* again knows the cleanups it held before to be stale.  Each cleanup is
\* `listeners.delete.bind(listeners, listener)`.
cleanupListener(l, w) ==
    /\ l \in issued
    /\ w = "stale" => last.op = "register again" /\ last.l = l
    /\ listeners' = compact(setDelete(listeners, l))
    /\ last' = IF w = "stale" THEN [NoCall EXCEPT !.op = "stale cleanup", !.l = l]
               ELSE NoCall
    /\ UNCHANGED <<accessorKind, target, stray, lock, issued, attached, aborted>>
    /\ UNCHANGED loadingVars

RECURSIVE deleteAll(_, _)
deleteAll(list, S) ==
    IF S = {} THEN list
    ELSE LET l == CHOOSE x \in S : TRUE IN deleteAll(setDelete(list, l), S \ {l})

\* The signal aborts: every cleanup attached with { once: true } runs.
abort ==
    /\ ~aborted
    /\ aborted' = TRUE
    /\ listeners' = compact(deleteAll(listeners, attached))
    /\ attached' = {}
    /\ last' = NoCall
    /\ UNCHANGED <<accessorKind, target, stray, lock, issued>>
    /\ UNCHANGED loadingVars

\* What the `lock` callback reads changes.
lockChanges ==
    /\ accessorKind # "none"
    /\ lock' = ~lock
    /\ last' = NoCall
    /\ UNCHANGED <<accessorKind, target, stray, listeners, issued, attached, aborted>>
    /\ UNCHANGED loadingVars

\* The wrapped location is written directly, not through the store.
targetChanges(v) ==
    /\ accessorKind # "none"
    /\ target # v
    /\ target' = v
    /\ last' = NoCall
    /\ UNCHANGED <<accessorKind, stray, lock, listeners, issued, attached, aborted>>
    /\ UNCHANGED loadingVars

StoreNext ==
    \/ \E v \in Vals : lockable(v)
    \/ \E k \in {"value", "closures", "methods"}, v \in Vals : lockable_from(k, v)
    \/ \E v \in Vals, l \in ListenerIds, b \in Behaviours : setStoreValue(v, l, b)
    \/ \E v \in Vals : force(v)
    \/ \E l \in ListenerIds, s \in {"none", "signal"} : onupdateprevented(l, s)
    \/ \E l \in ListenerIds, w \in {"current", "stale"} : cleanupListener(l, w)
    \/ abort
    \/ lockChanges
    \/ \E v \in Vals : targetChanges(v)

\* ------------------------------------------------------------ specifications

LoadingNext ==
    \/ \E b \in BOOLEAN : useLoading(b)
    \/ \E b \in BOOLEAN : useLoading_derived(b)
    \/ \E p \in NodeIds, b \in BOOLEAN : scoped(p, b)
    \/ \E p \in NodeIds, b \in BOOLEAN : derived(p, b)
    \/ \E p \in NodeIds, st \in {"pending", "fulfilled", "rejected"}, d \in Delays :
          promised(p, st, d)
    \/ \E n \in NodeIds, b \in BOOLEAN : setValue(n, b)
    \/ \E n \in NodeIds, b \in BOOLEAN : fromChanges(n, b)
    \/ \E n \in NodeIds : onDestroy(n)
    \/ \E n \in NodeIds : timeoutCallback(n)
    \/ \E n \in NodeIds, o \in {"fulfilled", "rejected"} : settle(n, o)
    \/ finallyCallback
    \/ \E n \in NodeIds : delayElapses(n)

\* The calls on a loading state whose caller looks at the outcome.
LoadingCallsNext ==
    \/ LoadingNext
    \/ \E n \in NodeIds, b \in BOOLEAN : assignValue(n, b)
    \/ \E n \in NodeIds, x \in Others : or(n, x)

Init == LoadingInit /\ StoreInit

\* The loading states alone, and the lockable store alone.  or() and a write
\* that throws change nothing but what their caller gets: LoadingSpec leaves the
\* caller out, LoadingCallsSpec records in `ret` what the caller gets.
LoadingSpec == Init /\ [][LoadingNext]_vars
LoadingCallsSpec == Init /\ [][LoadingCallsNext]_vars
StoreSpec == Init /\ [][StoreNext]_vars

\* ------------------------------------------------- properties: loading state

Promised == {n \in Created : kind[n] = "promised"}
Queued(n) == \E i \in DOMAIN jobs : jobs[i] = n
\* The `finally` callback of the promise of node n has run.
Settled(n) == promise[n] \in {"fulfilled", "rejected"} /\ ~Queued(n)

\* The stores reachable from n through the `values` sets, n included.
Subtree(n) ==
    LET F[i \in 0..MaxNodes] ==
            IF i = 0 THEN {n} ELSE F[i - 1] \cup UNION {values[x] : x \in F[i - 1]}
    IN F[MaxNodes]

\* The store that n was created on, and the stores that one was created on.
Ancestors(n) ==
    LET F[i \in 0..MaxNodes] ==
            IF i = 0 THEN {parent[n]} \ {0}
            ELSE F[i - 1] \cup ({parent[x] : x \in F[i - 1]} \ {0})
    IN F[MaxNodes]

\* C1: reading `value` of a store gives its own source value OR the `value` of
\* every child now in its set, through every depth: it is true exactly when
\* some store of its subtree has a true source value.
C1_Aggregation ==
    \A n \in Created :
        /\ nodeValue(n) = (get(n) \/ \E c \in values[n] : nodeValue(c))
        /\ nodeValue(n) = (\E d \in Subtree(n) : get(d))

\* A root that reads true only because of a grandchild.
C1_Witness ==
    \E n \in Created : \E c \in values[n] : \E g \in values[c] :
        /\ parent[n] = 0
        /\ get(g) /\ ~get(c) /\ ~get(n)
        /\ nodeValue(n)

\* A store or its source is acted on: a write, a change of what `from` reads,
\* the timer callback, the `finally` callback.
ActsOn(c) ==
    \/ \E b \in BOOLEAN : setValue(c, b)
    \/ \E b \in BOOLEAN : fromChanges(c, b)
    \/ timeoutCallback(c)
    \/ jobs # <<>> /\ Head(jobs) = c /\ finallyCallback

\* C2: once the teardown hook of child c has run, c is never again in its
\* parent's set, nothing done to c changes the `value` read on an ancestor, and
\* running the hook again changes nothing.
C2_Deregistration ==
    /\ [](\A c \in Created : destroyed[c] => c \notin values[parent[c]])
    /\ [][\A c \in Created : destroyed[c] /\ ActsOn(c) =>
              \A a \in Ancestors(c) : nodeValue(a)' = nodeValue(a)]_vars
    /\ [][\A c \in Created : destroyed[c] /\ onDestroy(c) => UNCHANGED vars]_vars

\* A torn down child reads true and its parent reads false.
C2_Witness ==
    \E c \in Created :
        destroyed[c] /\ nodeValue(c) /\ ~nodeValue(parent[c]) /\ values[parent[c]] # {}

\* C3: when the `finally` callback of a promised store runs before the timer
\* callback, `value` is false throughout, the timer is cleared and its callback
\* never runs.
C3_FlickerSuppression ==
    /\ [](\A n \in Promised : timeout[n] # "fired" => ~value[n])
    /\ [][\A n \in Promised : Settled(n) /\ timeout[n] # "fired" =>
              timeout[n] = "cleared" /\ timeout'[n] = "cleared" /\ ~value'[n]]_vars

\* A promise settled first and its timer was cleared.
C3_Witness ==
    \E n \in Promised :
        Settled(n) /\ timeout[n] = "cleared" /\ ~value[n] /\ jobs = <<>>

\* C4: when the timer callback runs before the `finally` callback, `value` is
\* false until the timer fires, true from then until the `finally` callback
\* runs, false from then on, for a fulfilled and for a rejected promise alike;
\* the timer that fired stays as it is.
C4_PromiseTimeline ==
    /\ [](\A n \in Promised :
            /\ timeout[n] \in {"waiting", "due"} => ~value[n]
            /\ timeout[n] = "fired" /\ ~Settled(n) => value[n]
            /\ timeout[n] = "fired" /\ Settled(n) => ~value[n])
    /\ [][\A n \in Promised : timeout[n] = "fired" => timeout'[n] = "fired"]_vars

\* The timer fired, then the promise rejected.
C4_Witness ==
    \E n \in Promised :
        timeout[n] = "fired" /\ promise[n] = "rejected" /\ Settled(n) /\ ~value[n]

\* The stores whose `value` cannot be assigned.
Readonly == {n \in Created : kind[n] \in {"derived", "useLoading.derived", "promised"}}
ReadonlyErrors == {"Error: Readonly property",
                   "TypeError: Cannot set property value which has only a getter"}

\* C11: an assignment to `value` of a store made by derived(),
\* useLoading.derived() or promised() throws a read-only error and changes no
\* source value, no children set and the `value` read on no store; on a store
\* made by useLoading() or scoped() the assignment never throws.
C11_ReadonlyWriteThrows ==
    [][\A n \in NodeIds, v \in BOOLEAN : assignValue(n, v) =>
          /\ ret'.op = "write" /\ ret'.n = n
          /\ n \in Readonly =>
                /\ ret'.out \in ReadonlyErrors
                /\ kind[n] # "promised" => ret'.out = "Error: Readonly property"
                /\ UNCHANGED <<value, from, values>>
                /\ \A m \in Created : nodeValue(m)' = nodeValue(m)
          /\ n \notin Readonly => ret'.out = "returned"]_vars

\* A write of another value to a derived child has thrown.
C11_Witness ==
    /\ ret.op = "write" /\ ret.out = "Error: Readonly property"
    /\ kind[ret.n] = "derived" /\ ~from[ret.n] /\ ~nodeValue(parent[ret.n])

\* C12: n.or(x) returns the `value` of n, children included, OR Boolean(x):
\* Boolean(x) when `value` is false, true when it is true; and it changes no
\* source value and no children set.
C12_Or ==
    [][\A n \in NodeIds, x \in Others : or(n, x) =>
          /\ ret'.op = "or" /\ ret'.n = n
          /\ ret'.out = (IF nodeValue(n) \/ x \in {"true", "'x'"}
                         THEN "true" ELSE "false")
          /\ ~nodeValue(n) => ret'.out = (IF x \in {"true", "'x'"} THEN "true" ELSE "false")
          /\ nodeValue(n) => ret'.out = "true"
          /\ UNCHANGED <<value, from, values>>]_vars

\* or() on a root that is true only through a child has returned true.
C12_Witness ==
    /\ ret.op = "or" /\ ret.out = "true"
    /\ parent[ret.n] = 0 /\ ~get(ret.n) /\ nodeValue(ret.n)

\* The `finally` callback of the promise of node n runs.
FinallyOf(n) == jobs # <<>> /\ Head(jobs) = n /\ finallyCallback

\* C13: the teardown of a promised state whose promise is pending takes the state
\* out of every children set and does nothing else: no ancestor's `value`
\* reflects it from then on, also when its timer fires and sets its own flag;
\* the promise is still tracked, can still settle, and its `finally` callback
\* still runs and clears the flag.
C13_TeardownOnlyHides ==
    /\ [](\A n \in Promised : destroyed[n] =>
            /\ \A a \in Created \ {n} : n \notin Subtree(a)
            /\ promise[n] = "pending" => ENABLED settle(n, "fulfilled")
            /\ Queued(n) => ENABLED finallyCallback)
    /\ [][\A n \in Promised : onDestroy(n) =>
              UNCHANGED <<value, timeout, promise, jobs>>]_vars
    /\ [][\A n \in Promised : destroyed[n] /\ timeoutCallback(n) =>
              /\ value'[n]
              /\ \A a \in Ancestors(n) : nodeValue(a)' = nodeValue(a)]_vars
    /\ [][\A n \in Promised : destroyed[n] /\ FinallyOf(n) =>
              /\ ~value'[n]
              /\ \A a \in Ancestors(n) : nodeValue(a)' = nodeValue(a)]_vars

\* A torn down promised state reads true, its promise is pending, and the store
\* it was created on reads false.
C13_Witness ==
    \E n \in Promised :
        /\ destroyed[n] /\ promise[n] = "pending"
        /\ timeout[n] = "fired" /\ value[n] /\ ~nodeValue(parent[n])

\* C14: the teardown hook of a promised state cancels its timer: the timer
\* callback never runs once the hook has run.
C14_TeardownCancelsTimer ==
    [][\A n \in Promised : destroyed[n] => ~timeoutCallback(n)]_vars

\* C15: promised(p, 0) arms a timer that is due at once; when p is settled
\* already its `finally` callback is queued at creation and runs before the
\* timer callback can, clearing the timer, so `value` is never true; the timer
\* callback runs only for a promise whose `finally` callback has not run, and
\* sets `value` to true.
C15_SameTickRace ==
    /\ [][\A p \in NodeIds, st \in {"pending", "fulfilled", "rejected"} :
            promised(p, st, 0) =>
                /\ timeout'[count'] = "due" /\ ~value'[count']
                /\ st # "pending" => \E i \in DOMAIN jobs' : jobs'[i] = count']_vars
    /\ [][\A n \in Promised : Queued(n) /\ timeout[n] = "due" =>
            /\ ~timeoutCallback(n)
            /\ timeout'[n] \in {"due", "cleared"} /\ ~value'[n]
            /\ FinallyOf(n) => timeout'[n] = "cleared"]_vars
    /\ [][\A n \in Promised : timeoutCallback(n) =>
            promise[n] = "pending" /\ value'[n]]_vars

\* The race is on: the timer of the state made last is due and the `finally`
\* callback of its rejected promise is queued.
C15_Witness ==
    /\ count \in Promised /\ promise[count] = "rejected"
    /\ jobs = <<count>> /\ timeout[count] = "due" /\ ~value[count]

\* C16: after `n.value = v` on a state made by useLoading() or scoped() the
\* source value of n is v and `value` reads v OR the `value` of the children
\* of n; no other source value and no children set changes.
C16_WriteVisibility ==
    [][\A n \in NodeIds, v \in BOOLEAN :
          (setValue(n, v) \/ (assignValue(n, v) /\ kind[n] \in Writable)) =>
              /\ value'[n] = v /\ get(n)' = v
              /\ nodeValue(n)' = (v \/ \E c \in values[n] : nodeValue(c))
              /\ \A m \in NodeIds \ {n} : value'[m] = value[m]
              /\ UNCHANGED <<from, values>>]_vars

\* A write to a state has returned; the state reads true through a child and
\* the store it was created on holds a different flag.
C16_Witness ==
    /\ ret.op = "write" /\ ret.out = "returned"
    /\ ~value[ret.n] /\ nodeValue(ret.n)
    /\ parent[ret.n] # 0 /\ get(parent[ret.n])

\* C17: a children set changes only by the add of the state just made by
\* scoped(), derived() or promised() on the owner of the set, and by the
\* teardown hook of one of its members; the new state is added to the set of
\* the store the factory was called on and to no other; or(), writes, timers
\* and settlements change no set.
C17_ChildrenSetFrame ==
    /\ [][\A p \in NodeIds : values'[p] # values[p] =>
            \/ /\ count' = count + 1 /\ parent'[count'] = p
               /\ kind'[count'] \in {"scoped", "derived", "promised"}
               /\ values'[p] = values[p] \cup {count'}
            \/ \E c \in values[p] :
                  onDestroy(c) /\ values'[p] = values[p] \ {c}]_vars
    /\ [][count' = count + 1 =>
            \A p \in NodeIds : (count' \in values'[p]) <=> (parent'[count'] = p)]_vars
    /\ [][(\/ \E n \in NodeIds, x \in Others : or(n, x)
           \/ \E n \in NodeIds, v \in BOOLEAN : setValue(n, v) \/ assignValue(n, v)
           \/ \E n \in NodeIds, v \in BOOLEAN : fromChanges(n, v)
           \/ \E n \in NodeIds : timeoutCallback(n) \/ delayElapses(n)
           \/ \E n \in NodeIds, o \in {"fulfilled", "rejected"} : settle(n, o)
           \/ finallyCallback) => UNCHANGED values]_vars
    /\ [](\A p \in NodeIds : \A c \in values[p] : parent[c] = p)

\* A child made on a child: it is in the set of the store it was made on, not in
\* the root's, and an or() on the root has left the sets alone.
C17_Witness ==
    /\ ret.op = "or" /\ parent[ret.n] = 0
    /\ \E c \in values[ret.n] : \E g \in values[c] : g \notin values[ret.n]

\* ------------------------------------------------ properties: lockable store

LockedWrite == last.op = "write" /\ last.locked
\* The listeners called by the last write, in the order of the calls.
CalledListeners == [i \in DOMAIN last.deliveries |-> last.deliveries[i].listener]
\* The accessor.set calls that the store's own write path made in the last call.
OwnSets == {i \in DOMAIN last.sets : last.sets[i].by = 0}

\* C5: a write made while lock() returns true never calls accessor.set itself,
\* so the wrapped value stays as it was unless a listener called during the
\* write sets it; every listener call gets {value: the accessor's value at that
\* moment, newValue: v}; when no listener re-enters the store, each listener
\* registered at the write is called exactly once with {value: the unchanged
\* value, newValue: v}; with no listener registered nothing happens at all.
C5_LockedWriteDoesNotMutate ==
    LockedWrite =>
        /\ OwnSets = {}
        /\ last.sets = <<>> => target = last.before
        /\ \A i \in DOMAIN last.deliveries : last.deliveries[i].newValue = last.v
        /\ ~last.reentered =>
            /\ CalledListeners = last.registered
            /\ \A i \in DOMAIN last.deliveries :
                   last.deliveries[i].value = last.before /\ target = last.before
        /\ last.registered = <<>> =>
            /\ last.deliveries = <<>> /\ last.sets = <<>>
            /\ listeners = <<>> /\ target = last.before

\* A locked write of another value, with two listeners that only look.
C5_Witness ==
    /\ LockedWrite /\ ~last.reentered
    /\ Len(last.registered) = 2 /\ Len(last.deliveries) = 2
    /\ last.v # last.before /\ target = last.before

\* C6: force(v) sets the accessor to v whatever lock() returns, and calls no
\* listener.
C6_ForceSets ==
    last.op = "force" => storeValue = last.v /\ last.deliveries = <<>>

\* C7: each write is decided by what lock() returns at that write: unlocked, the
\* accessor is set to v and no listener is called; locked, the write does not
\* set the accessor; `locked` reads what lock() returns now.
C7_LockReadAtWrite ==
    /\ storeLocked = lock
    /\ last.op = "write" /\ ~lock =>
          /\ last.sets = <<[by |-> 0, v |-> last.v]>>
          /\ target = last.v /\ storeValue = last.v
          /\ last.deliveries = <<>>
          /\ listeners = last.registered
    /\ last.op = "write" /\ lock => OwnSets = {}

\* An unlocked write of another value went through with two listeners
\* registered, and none of them was called.
C7_Witness ==
    /\ last.op = "write" /\ ~lock /\ ~storeLocked
    /\ target = last.v /\ last.before # last.v
    /\ Len(listeners) = 2 /\ last.deliveries = <<>>

\* C8: the store keeps no value of its own: `value` reads the wrapped location
\* as it is now, and the location changes only by an unlocked write, a force, a
\* listener's force during a locked write, or a direct change of the location:
\* never by a change of the lock or of the listeners.
C8_NoBufferedValue ==
    /\ [](accessorKind # "none" => storeValue = target)
    /\ [][target' # target =>
            \/ accessorKind = "none"
            \/ last'.op = "write" /\ ~last'.locked /\ target' = last'.v
            \/ last'.op = "force" /\ target' = last'.v
            \/ /\ last'.op = "write" /\ last'.locked /\ last'.sets # <<>>
               /\ \A i \in DOMAIN last'.sets : last'.sets[i].by # 0
               /\ target' = last'.sets[Len(last'.sets)].v
            \/ targetChanges(target')]_vars

\* A store made from a { value } object has rejected a write of another value
\* and still reads the old one.
C8_Witness ==
    /\ accessorKind = "value" /\ LockedWrite /\ last.sets = <<>>
    /\ last.v # last.before /\ storeValue = last.before

\* C9: a listener removed by its cleanup function or by the abort of its signal
\* is in the registry no more, the other listeners stay in their order; it gets
\* back only by a new onupdateprevented; and a locked write calls only listeners
\* that are registered, all of them when no listener re-enters the store.
C9_RemovedListenerNotCalled ==
    /\ [][\A l \in ListenerIds : cleanupListener(l, "current") =>
            listeners' = SelectSeq(listeners, LAMBDA x : x # l)]_vars
    /\ [][abort => listeners' = SelectSeq(listeners, LAMBDA x : x \notin attached)]_vars
    /\ [][\A l \in ListenerIds :
            l \notin Range(listeners) /\ l \in Range(listeners') =>
                \/ \E s \in {"none", "signal"} : onupdateprevented(l, s)
                \/ last'.op = "write" /\ last'.reentered]_vars
    /\ [](LockedWrite /\ ~last.reentered => CalledListeners = last.registered)

\* A locked write called the one listener left after the other was removed by
\* the abort of its signal.
C9_Witness ==
    /\ LockedWrite /\ ~last.reentered /\ aborted
    /\ Len(last.registered) = 1 /\ Len(last.deliveries) = 1
    /\ issued = ListenerIds

\* C10: a locked write with listeners builds exactly one event and calls every
\* registered listener once with it, in the order of registration.
C10_OneEventPerWrite ==
    LockedWrite /\ last.registered # <<>> /\ ~last.reentered =>
        /\ CalledListeners = last.registered
        /\ \A i \in DOMAIN last.deliveries : last.deliveries[i].event = 1

\* The place of listener l in the registry as the last write found it.
Place(l) == CHOOSE i \in DOMAIN last.registered : last.registered[i] = l

\* C18: a registered listener leaves the registry only by a cleanup of its
\* present registration or by the abort of a signal handed in with it (or by
\* what a listener does during a write), and is called by every locked write
\* until then; the cleanup of an earlier registration that has ended does not
\* remove a listener that was registered again.
C18_RegistrationLifetime ==
    /\ [][\A l \in ListenerIds :
            l \in Range(listeners) /\ l \notin Range(listeners') =>
                \/ last'.op = "other" /\ cleanupListener(l, "current")
                \/ abort /\ l \in attached
                \/ last'.op = "write" /\ last'.reentered]_vars
    /\ [][\A l \in ListenerIds :
            cleanupListener(l, "stale") /\ l \in Range(listeners) =>
                l \in Range(listeners')]_vars
    /\ [](LockedWrite /\ ~last.reentered =>
            \A l \in Range(last.registered) :
                \E i \in DOMAIN last.deliveries : last.deliveries[i].listener = l)

\* C19: every listener called by one locked write gets the same detail: `value`
\* is the accessor's value when the write began and `newValue` the value
\* written, whatever an earlier listener of the same write did to the store.
C19_ConsistentPayload ==
    LockedWrite =>
        \A i \in DOMAIN last.deliveries :
            /\ last.deliveries[i].value = last.before
            /\ last.deliveries[i].newValue = last.v

\* C20: a locked write calls each listener at most once and only listeners
\* registered when the write began: not one that a listener registers during
\* the write, not one that another listener removed before its turn, and not a
\* second time one that was removed and registered again during the write.
C20_DispatchSnapshot ==
    LockedWrite =>
        /\ \A i, j \in DOMAIN last.deliveries :
               last.deliveries[i].listener = last.deliveries[j].listener => i = j
        /\ \A i \in DOMAIN last.deliveries :
               last.deliveries[i].listener \in Range(last.registered)
        /\ \A l \in Range(last.registered) \ Range(listeners) :
               (last.l \in Range(last.registered) \ {l} /\ Place(last.l) < Place(l)) =>
                   \A i \in DOMAIN last.deliveries : last.deliveries[i].listener # l

====
